---- MODULE Spec2Model ----
(***************************************************************************)
(* A model of diffrs (src/src/main.rs): a terminal tool that shows two     *)
(* JSON documents side by side and, on request, a key-by-key comparison.   *)
(*                                                                         *)
(* Text is modelled at character level: a string is a sequence of          *)
(* one-character strings.  A JSON value (serde_json::Value) is a record    *)
(* tagged by t; an object holds a function m from keys to values, which    *)
(* is what serde_json's BTreeMap-backed Map is.  A working file holds      *)
(* nothing, text that is not JSON, or a JSON document as written: a tree   *)
(* whose objects list their members in the order of the text.              *)
(***************************************************************************)
EXTENDS Integers, Sequences, FiniteSets, TLC

VARIABLES
    left_file,               \* contents of the left working file
    right_file,              \* contents of the right working file
    left_diff_result,        \* DiffApp.left_diff_result
    right_diff_result,       \* DiffApp.right_diff_result
    original_left_content,   \* DiffApp.original_left_content
    original_right_content,  \* DiffApp.original_right_content
    display_diff,            \* DiffApp.display_diff
    key,                     \* the key code most recently read by the loop
    pc                       \* where the process is

vars == <<left_file, right_file, left_diff_result, right_diff_result,
          original_left_content, original_right_content, display_diff,
          key, pc>>

\* Largest number that occurs as a member value in the compared documents.
MaxNum == 1

-----------------------------------------------------------------------------
(* JSON values *)

Null == [t |-> "null"]
Bool(b) == [t |-> "bool", b |-> b]
Num(n) == [t |-> "num", n |-> n]
Str(s) == [t |-> "str", s |-> s]
Arr(items) == [t |-> "arr", items |-> items]
Obj(m) == [t |-> "obj", m |-> m]

\* A JSON object as written in a file: its members in text order.
RawObj(members) == [t |-> "obj", members |-> members]
Member(k, v) == [key |-> k, value |-> v]

\* serde_json's parse of a document: objects become maps, so the order of
\* the members is lost and a repeated key keeps its last value.
RECURSIVE FromRaw(_)
FromRaw(raw) ==
    CASE raw.t = "arr" ->
           Arr([i \in 1..Len(raw.items) |-> FromRaw(raw.items[i])])
      [] raw.t = "obj" ->
           LET ks == {raw.members[i].key : i \in 1..Len(raw.members)}
               last(k) == CHOOSE i \in 1..Len(raw.members) :
                            /\ raw.members[i].key = k
                            /\ \A j \in (i+1)..Len(raw.members) :
                                   raw.members[j].key # k
           IN Obj([k \in ks |-> FromRaw(raw.members[last(k)].value)])
      [] OTHER -> raw

-----------------------------------------------------------------------------
(* Strings and their order *)

\* The byte of each character that occurs in a key.
CharCode(c) ==
    CASE c = "B" -> 66
      [] c = "a" -> 97
      [] c = "b" -> 98
      [] c = "c" -> 99
      [] c = "k" -> 107
      [] c = "x" -> 120

\* Ord for String: lexicographic by bytes, a proper prefix first.
RECURSIVE StrLess(_, _)
StrLess(s, u) ==
    IF s = << >> THEN u # << >>
    ELSE IF u = << >> THEN FALSE
    ELSE IF s[1] = u[1] THEN StrLess(Tail(s), Tail(u))
    ELSE CharCode(s[1]) < CharCode(u[1])

\* The elements of a BTreeSet (or the keys of a BTreeMap) as iterated.
RECURSIVE BTreeIter(_)
BTreeIter(S) ==
    IF S = {} THEN << >>
    ELSE LET least == CHOOSE x \in S : \A y \in S \ {x} : StrLess(x, y)
         IN <<least>> \o BTreeIter(S \ {least})

Digits == <<"0", "1", "2", "3", "4", "5", "6", "7", "8", "9">>

\* Display of an integer.
RECURSIVE FormatNat(_)
FormatNat(n) ==
    IF n < 10 THEN <<Digits[n + 1]>>
    ELSE FormatNat(n \div 10) \o <<Digits[(n % 10) + 1]>>

FormatInt(n) == IF n < 0 THEN <<"-">> \o FormatNat(0 - n) ELSE FormatNat(n)

Quoted(s) == <<"\"">> \o s \o <<"\"">>

\* The text of s repeated n times.
RECURSIVE Repeat(_, _)
Repeat(s, n) == IF n = 0 THEN << >> ELSE s \o Repeat(s, n - 1)

\* A sequence of strings joined by sep.
RECURSIVE Join(_, _)
Join(ss, sep) ==
    IF ss = << >> THEN << >>
    ELSE IF Len(ss) = 1 THEN ss[1]
    ELSE ss[1] \o sep \o Join(Tail(ss), sep)

\* Display for Value: compact JSON.
RECURSIVE Display(_)
Display(v) ==
    CASE v.t = "null" -> <<"n", "u", "l", "l">>
      [] v.t = "bool" -> IF v.b THEN <<"t", "r", "u", "e">>
                         ELSE <<"f", "a", "l", "s", "e">>
      [] v.t = "num" -> FormatInt(v.n)
      [] v.t = "str" -> Quoted(v.s)
      [] v.t = "arr" ->
           <<"[">> \o Join([i \in 1..Len(v.items) |-> Display(v.items[i])],
                           <<",">>) \o <<"]">>
      [] v.t = "obj" ->
           LET ks == BTreeIter(DOMAIN v.m)
           IN <<"{">> \o Join([i \in 1..Len(ks) |->
                                  Quoted(ks[i]) \o <<":">> \o Display(v.m[ks[i]])],
                              <<",">>) \o <<"}">>

\* serde_json::to_string_pretty: two spaces per level, one element per line.
RECURSIVE Pretty(_, _)
Pretty(v, level) ==
    LET pad(n) == Repeat(<<" ">>, 2 * n)
        block(open, elems, close) ==
            IF elems = << >> THEN open \o close
            ELSE open \o <<"\n">>
                 \o Join([i \in 1..Len(elems) |-> pad(level + 1) \o elems[i]],
                         <<",", "\n">>)
                 \o <<"\n">> \o pad(level) \o close
    IN CASE v.t = "arr" ->
              block(<<"[">>,
                    [i \in 1..Len(v.items) |-> Pretty(v.items[i], level + 1)],
                    <<"]">>)
         [] v.t = "obj" ->
              LET ks == BTreeIter(DOMAIN v.m)
              IN block(<<"{">>,
                       [i \in 1..Len(ks) |->
                           Quoted(ks[i]) \o <<":", " ">>
                           \o Pretty(v.m[ks[i]], level + 1)],
                       <<"}">>)
         [] OTHER -> Display(v)

to_string_pretty(v) == Pretty(v, 0)

-----------------------------------------------------------------------------
(* Styled text *)

\* One line of a Text: its characters and the colour of its single span.
Span(content, style) == [content |-> content, style |-> style]

\* Text::default(): no lines.
TextDefault == << >>

\* str::lines: the pieces between line feeds; a final line feed ends the
\* last line and starts no new one.
RECURSIVE SplitLines(_, _)
SplitLines(s, cur) ==
    IF s = << >> THEN (IF cur = << >> THEN << >> ELSE <<cur>>)
    ELSE IF Head(s) = "\n" THEN <<cur>> \o SplitLines(Tail(s), << >>)
    ELSE SplitLines(Tail(s), Append(cur, Head(s)))

\* Text::from(String): one unstyled line per line of the string.
TextFrom(s) ==
    LET ls == SplitLines(s, << >>)
    IN [i \in 1..Len(ls) |-> Span(ls[i], "None")]

-----------------------------------------------------------------------------
(* Working files *)

EmptyFile == [kind |-> "empty"]
MalformedFile == [kind |-> "malformed"]
JsonFile(raw) == [kind |-> "json", doc |-> raw]

Ok(v) == [ok |-> TRUE, value |-> v]
Err == [ok |-> FALSE]

\* parse_json: the file's contents parsed as JSON.  An empty file and text
\* that is not JSON are both errors of serde_json::from_str.
parse_json(file) ==
    IF file.kind = "json" THEN Ok(FromRaw(file.doc)) ELSE Err

\* read_json: the parsed value pretty-printed, as a Text.
read_json(file) ==
    LET parsed == parse_json(file)
    IN IF parsed.ok THEN Ok(TextFrom(to_string_pretty(parsed.value))) ELSE Err

\* Result::unwrap_or_default for a Text.
unwrap_or_default(res) == IF res.ok THEN res.value ELSE TextDefault

-----------------------------------------------------------------------------
(* The comparison *)

\* A lookup that tells an absent key from a null one.
GetOrAbsent(map, k) ==
    IF k \in DOMAIN map THEN map[k] ELSE Str(<<"a", "b", "s", "e", "n", "t">>)

\* map.get(key).cloned().unwrap_or(json!(null))
GetOrNull(map, k) == IF k \in DOMAIN map THEN map[k] ELSE Null

\* The keys in the order of the chained iterators, each once: what a Vec
\* or an insertion-ordered set would give.
AllKeysChained(left_map, right_map) ==
    BTreeIter(DOMAIN left_map) \o BTreeIter(DOMAIN right_map \ DOMAIN left_map)

\* The BTreeSet collected from both maps' keys, as the loop iterates it.
AllKeys(left_map, right_map) ==
    BTreeIter(DOMAIN left_map \cup DOMAIN right_map)

\* format!("{}: {}\n", key, value)
FormatLine(k, value) == k \o <<":", " ">> \o Display(value) \o <<"\n">>

\* A slip in the differing branch: the left line formatted from the right
\* value.
LeftLineOfRight(k, left_value, right_value) ==
    IF left_value = right_value
    THEN Span(FormatLine(k, left_value), "Green")
    ELSE Span(FormatLine(k, right_value), "Green")

\* The symmetric convention: a differing left line marked as changed too.
LeftLineSymmetric(k, left_value, right_value) ==
    IF left_value = right_value
    THEN Span(FormatLine(k, left_value), "Green")
    ELSE Span(FormatLine(k, left_value), "Red")

\* The line pushed to left_diff for one key, in either branch.
LeftLine(k, left_value, right_value) ==
    IF left_value = right_value
    THEN Span(FormatLine(k, left_value), "Green")
    ELSE Span(FormatLine(k, left_value), "Green")

\* A slip in the differing branch: the style of the equal branch kept.
RightLineGreen(k, left_value, right_value) ==
    IF left_value = right_value
    THEN Span(FormatLine(k, left_value), "Green")
    ELSE Span(FormatLine(k, right_value), "Green")

\* The line pushed to right_diff for one key, in either branch.
RightLine(k, left_value, right_value) ==
    IF left_value = right_value
    THEN Span(FormatLine(k, left_value), "Green")
    ELSE Span(FormatLine(k, right_value), "Red")

\* A fallback that compares the two values and marks only a difference.
FallbackComparing(left, right) ==
    << <<Span(Display(left), "Green")>>,
       <<Span(Display(right), IF left = right THEN "Green" ELSE "Red")>> >>

\* The else branch: each whole value on one line.
Fallback(left, right) ==
    << <<Span(Display(left), "Green")>>, <<Span(Display(right), "Red")>> >>

\* A presence diff: a side gets a line only for the keys it holds.
diff_json_values_presence(left, right) ==
    IF left.t = "obj" /\ right.t = "obj"
    THEN LET all_keys == AllKeys(left.m, right.m)
             lv(i) == GetOrNull(left.m, all_keys[i])
             rv(i) == GetOrNull(right.m, all_keys[i])
             lks == SelectSeq(all_keys, LAMBDA k : k \in DOMAIN left.m)
             rks == SelectSeq(all_keys, LAMBDA k : k \in DOMAIN right.m)
         IN << [i \in 1..Len(lks) |->
                   LeftLine(lks[i], left.m[lks[i]], GetOrNull(right.m, lks[i]))],
               [i \in 1..Len(rks) |->
                   RightLine(rks[i], GetOrNull(left.m, rks[i]), right.m[rks[i]])] >>
    ELSE Fallback(left, right)

\* diff_json_values: the pair <<left_diff, right_diff>>.
diff_json_values(left, right) ==
    IF left.t = "obj" /\ right.t = "obj"
    THEN LET all_keys == AllKeys(left.m, right.m)
             lv(i) == GetOrNull(left.m, all_keys[i])
             rv(i) == GetOrNull(right.m, all_keys[i])
         IN << [i \in 1..Len(all_keys) |-> LeftLine(all_keys[i], lv(i), rv(i))],
               [i \in 1..Len(all_keys) |-> RightLine(all_keys[i], lv(i), rv(i))] >>
    ELSE Fallback(left, right)

\* compare_json_files: both files parsed, then compared.
compare_json_files(lfile, rfile) ==
    LET left_json == parse_json(lfile)
        right_json == parse_json(rfile)
    IN IF ~left_json.ok THEN Err
       ELSE IF ~right_json.ok THEN Err
       ELSE Ok(diff_json_values(left_json.value, right_json.value))

\* render_ui: what each pane shows.
LeftPane == IF display_diff THEN left_diff_result ELSE original_left_content
RightPane == IF display_diff THEN right_diff_result ELSE original_right_content

-----------------------------------------------------------------------------
(* The documents the model draws from *)

Arr123 == Arr(<<Num(1), Num(2), Num(3)>>)
Arr124 == Arr(<<Num(1), Num(2), Num(4)>>)

\* The keys of the compared objects, and the order a file lists them in.
Keys == {<<"a">>, <<"b">>, <<"c">>}
FileOrder == <<(<<"b">>), (<<"a">>), (<<"c">>)>>

\* The values a member of a compared object takes.
MemberValues == {Null, Arr123, Arr124} \cup {Num(n) : n \in 1..MaxNum}

\* The object with members f, written with its keys in FileOrder.
WrittenObj(f) ==
    LET ks == SelectSeq(FileOrder, LAMBDA k : k \in DOMAIN f)
    IN RawObj([i \in 1..Len(ks) |-> Member(ks[i], f[ks[i]])])

WrittenObjects ==
    {WrittenObj(f) : f \in UNION {[K -> MemberValues] : K \in SUBSET Keys}}

\* Documents whose top level is not an object.
NonObjects == {Null, Bool(TRUE), Num(1), Str(<<"x">>), Arr123, Arr124}

\* What the two files hold when a comparison is asked for.
DiffFiles ==
    {EmptyFile, MalformedFile}
        \cup {JsonFile(d) : d \in WrittenObjects \cup NonObjects}

\* What an editor session leaves in a working file.
DocBA == RawObj(<<Member(<<"b">>, Num(2)), Member(<<"a">>, Num(1))>>)
DocAA == RawObj(<<Member(<<"a">>, Num(2)), Member(<<"a">>, Num(1))>>)
DocNested == RawObj(<<Member(<<"x">>, RawObj(<<Member(<<"k">>, Null)>>))>>)
EditorFiles ==
    {EmptyFile, MalformedFile, JsonFile(DocBA), JsonFile(DocAA),
     JsonFile(DocNested), JsonFile(Arr123)}

\* How a call of open_editor ends: the editor ran and the screen was
\* restored; the editor could not be started (expect panics); a terminal
\* call failed (the ? returns the error).
EditorOutcomes == {"edited", "spawn_failed", "io_error"}

-----------------------------------------------------------------------------
(* The program *)

\* main up to the call of run_diff_app: a fresh DiffApp, and with -f the
\* two files loaded from left.json and right.json.
Init ==
    /\ pc = "running"
    /\ key = "none"
    /\ display_diff = FALSE
    /\ left_diff_result = TextDefault
    /\ right_diff_result = TextDefault
    /\ \E file_mode \in BOOLEAN, l, r \in {f \in EditorFiles : f.kind = "json"} :
         IF file_mode
         THEN /\ left_file = l
              /\ right_file = r
              /\ original_left_content = read_json(l).value
              /\ original_right_content = read_json(r).value
         ELSE /\ left_file = EmptyFile
              /\ right_file = EmptyFile
              /\ original_left_content = TextDefault
              /\ original_right_content = TextDefault

\* 'a': edit the left file, then reload what the left pane shows.
KeyA ==
    /\ pc = "running"
    /\ \E outcome \in EditorOutcomes, content \in EditorFiles :
         /\ key' = "a"
         /\ left_file' = IF outcome = "spawn_failed" THEN left_file ELSE content
         /\ pc' = CASE outcome = "spawn_failed" -> "panicked"
                    [] outcome = "io_error" -> "exited_err"
                    [] OTHER -> "running"
         /\ original_left_content' =
                IF outcome = "edited"
                THEN unwrap_or_default(read_json(left_file'))
                ELSE original_left_content
    /\ UNCHANGED <<right_file, left_diff_result, right_diff_result,
                   original_right_content, display_diff>>

\* 'b': edit the right file, then reload what the right pane shows.
KeyB ==
    /\ pc = "running"
    /\ \E outcome \in EditorOutcomes, content \in EditorFiles :
         /\ key' = "b"
         /\ right_file' = IF outcome = "spawn_failed" THEN right_file ELSE content
         /\ pc' = CASE outcome = "spawn_failed" -> "panicked"
                    [] outcome = "io_error" -> "exited_err"
                    [] OTHER -> "running"
         /\ original_right_content' =
                IF outcome = "edited"
                THEN unwrap_or_default(read_json(right_file'))
                ELSE original_right_content
    /\ UNCHANGED <<left_file, left_diff_result, right_diff_result,
                   original_left_content, display_diff>>

\* A clear that also goes back to showing the loaded contents.
KeyCResets ==
    /\ pc = "running"
    /\ key' = "c"
    /\ left_file' = EmptyFile
    /\ right_file' = EmptyFile
    /\ original_left_content' = TextDefault
    /\ original_right_content' = TextDefault
    /\ display_diff' = FALSE
    /\ UNCHANGED <<left_diff_result, right_diff_result, pc>>

\* 'c': truncate both files and blank both loaded contents.
KeyC ==
    /\ pc = "running"
    /\ key' = "c"
    /\ left_file' = EmptyFile
    /\ right_file' = EmptyFile
    /\ original_left_content' = TextDefault
    /\ original_right_content' = TextDefault
    /\ UNCHANGED <<left_diff_result, right_diff_result, display_diff, pc>>

\* 'd': compare the files; an error of the comparison leaves the loop.
KeyD ==
    /\ pc = "running"
    /\ key' = "d"
    /\ LET res == compare_json_files(left_file, right_file)
       IN IF res.ok
          THEN /\ left_diff_result' = res.value[1]
               /\ right_diff_result' = res.value[2]
               /\ display_diff' = TRUE
               /\ pc' = "running"
          ELSE /\ pc' = "exited_err"
               /\ UNCHANGED <<left_diff_result, right_diff_result, display_diff>>
    /\ UNCHANGED <<left_file, right_file, original_left_content,
                   original_right_content>>

\* 'q': leave the loop.
KeyQ ==
    /\ pc = "running"
    /\ key' = "q"
    /\ pc' = "exited_ok"
    /\ UNCHANGED <<left_file, right_file, left_diff_result, right_diff_result,
                   original_left_content, original_right_content, display_diff>>

\* Any other key: nothing.
KeyOther ==
    /\ pc = "running"
    /\ key' = "other"
    /\ UNCHANGED <<left_file, right_file, left_diff_result, right_diff_result,
                   original_left_content, original_right_content, display_diff,
                   pc>>

\* terminal.draw or event::read fails: the ? leaves the loop.
TerminalError ==
    /\ pc = "running"
    /\ pc' = "exited_err"
    /\ UNCHANGED <<left_file, right_file, left_diff_result, right_diff_result,
                   original_left_content, original_right_content, display_diff,
                   key>>

Next == KeyA \/ KeyB \/ KeyC \/ KeyD \/ KeyQ \/ KeyOther \/ TerminalError

Spec == Init /\ [][Next]_vars

\* The comparison alone: two files with any of the documents, and 'd'.
InitDiff ==
    /\ pc = "running"
    /\ key = "none"
    /\ display_diff = FALSE
    /\ left_diff_result = TextDefault
    /\ right_diff_result = TextDefault
    /\ original_left_content = TextDefault
    /\ original_right_content = TextDefault
    /\ left_file \in DiffFiles
    /\ right_file \in DiffFiles

NextDiff == KeyD

SpecDiff == InitDiff /\ [][NextDiff]_vars

-----------------------------------------------------------------------------
(* Properties of the comparison, under SpecDiff: display_diff there means *)
(* that the results are those of comparing the two files as they are.     *)

\* The two values that were compared.
LeftValue == parse_json(left_file).value
RightValue == parse_json(right_file).value

\* A comparison of two objects has been made.
ComparedObjects ==
    display_diff /\ LeftValue.t = "obj" /\ RightValue.t = "obj"

\* A comparison has been made and one of the values is not an object.
ComparedFallback ==
    display_diff /\ ~(LeftValue.t = "obj" /\ RightValue.t = "obj")

UnionKeys == DOMAIN LeftValue.m \cup DOMAIN RightValue.m

\* The value a key is compared and shown with: its own, or null.
ShownValue(obj, k) == IF k \in DOMAIN obj.m THEN obj.m[k] ELSE Null

HasPrefix(s, p) == Len(s) >= Len(p) /\ SubSeq(s, 1, Len(p)) = p

\* The text "key: value" followed by the line feed that ends the line.
KeyValueLine(k, v) == k \o <<":", " ">> \o Display(v) \o <<"\n">>

\* Line i of both sides is about key k.
PairIsAbout(i, k) ==
    /\ HasPrefix(left_diff_result[i].content, k \o <<":", " ">>)
    /\ HasPrefix(right_diff_result[i].content, k \o <<":", " ">>)

\* The key of the union that line pair i is about.
KeyAt(i) == CHOOSE k \in UnionKeys : PairIsAbout(i, k)

\* Lexicographic order of two keys by their bytes.
LexBefore(s, u) ==
    \E i \in 1..(Len(s) + 1) :
        /\ i <= Len(u)
        /\ \A j \in 1..(i - 1) : s[j] = u[j]
        /\ (i = Len(s) + 1 \/ CharCode(s[i]) < CharCode(u[i]))

\* C1: the two sequences of a result have the same length, and line i of
\* the left and line i of the right are about the same key (both start with
\* that key and ": "); when the values are not both objects, each side is
\* its single fallback line.
C1_AlignedLines ==
    display_diff =>
        /\ Len(left_diff_result) = Len(right_diff_result)
        /\ IF LeftValue.t = "obj" /\ RightValue.t = "obj"
           THEN \A i \in 1..Len(left_diff_result) :
                    \E k \in UnionKeys : PairIsAbout(i, k)
           ELSE /\ Len(left_diff_result) = 1
                /\ left_diff_result[1].content = Display(LeftValue)
                /\ right_diff_result[1].content = Display(RightValue)

\* C1 happens: two objects with a key on the left only and a key on the
\* right only were compared.
C1_Witness ==
    /\ ComparedObjects
    /\ DOMAIN LeftValue.m \ DOMAIN RightValue.m # {}
    /\ DOMAIN RightValue.m \ DOMAIN LeftValue.m # {}
    /\ Len(left_diff_result) = 3

\* C2: two objects give exactly one line pair per key of the union of
\* their key sets, each key once, in ascending lexicographic key order,
\* whatever order the files list the keys in.
C2_SortedUnion ==
    ComparedObjects =>
        LET n == Len(left_diff_result)
        IN /\ n = Cardinality(UnionKeys)
           /\ Len(right_diff_result) = n
           /\ \A k \in UnionKeys :
                  Cardinality({i \in 1..n : PairIsAbout(i, k)}) = 1
           /\ \A i \in 1..n : \E k \in UnionKeys : PairIsAbout(i, k)
           /\ \A i, j \in 1..n : i < j => LexBefore(KeyAt(i), KeyAt(j))

\* C2 happens: the left file lists b, a, c in that order, the right file
\* holds a alone, and the three pairs are a, b, c.
C2_Witness ==
    /\ ComparedObjects
    /\ left_file.doc.members # << >>
    /\ [i \in 1..Len(left_file.doc.members) |-> left_file.doc.members[i].key]
           = <<(<<"b">>), (<<"a">>), (<<"c">>)>>
    /\ DOMAIN RightValue.m = {<<"a">>}
    /\ Len(left_diff_result) = 3
    /\ PairIsAbout(1, <<"a">>) /\ PairIsAbout(2, <<"b">>)
    /\ PairIsAbout(3, <<"c">>)

\* C3: for every key of the union, deeply equal values give the same text
\* "key: value" on both sides, both unchanged (Green); differing values
\* give "key: left_value" unchanged on the left and "key: right_value"
\* changed (Red) on the right, at the same index.  So no left line is
\* changed, and a right line is changed exactly when the values differ.
C3_PairStyles ==
    ComparedObjects =>
        \A i \in 1..Len(left_diff_result) :
            LET k == KeyAt(i)
                lv == ShownValue(LeftValue, k)
                rv == ShownValue(RightValue, k)
            IN /\ i <= Len(right_diff_result)
               /\ left_diff_result[i] = Span(KeyValueLine(k, lv), "Green")
               /\ right_diff_result[i].content = KeyValueLine(k, rv)
               /\ lv = rv => right_diff_result[i] = left_diff_result[i]
               /\ (right_diff_result[i].style = "Red") <=> (lv # rv)
               /\ right_diff_result[i].style \in {"Green", "Red"}

\* C3 happens: one comparison with a key whose values are equal arrays and
\* a key whose arrays differ in their last element only.
C3_Witness ==
    /\ ComparedObjects
    /\ \E k \in DOMAIN LeftValue.m \cap DOMAIN RightValue.m :
           LeftValue.m[k] = Arr123 /\ RightValue.m[k] = Arr124
    /\ \E k \in DOMAIN LeftValue.m \cap DOMAIN RightValue.m :
           LeftValue.m[k] = Arr123 /\ RightValue.m[k] = Arr123
    /\ \E i \in 1..Len(right_diff_result) : right_diff_result[i].style = "Red"
    /\ \E i \in 1..Len(right_diff_result) : right_diff_result[i].style = "Green"

\* The keys that exactly one of the two objects holds.
OneSidedKeys ==
    (DOMAIN LeftValue.m \ DOMAIN RightValue.m)
        \cup (DOMAIN RightValue.m \ DOMAIN LeftValue.m)

\* The value of a key that one object holds.
OneSidedValue(k) ==
    IF k \in DOMAIN LeftValue.m THEN LeftValue.m[k] ELSE RightValue.m[k]

\* C4 as stated: the pair of a key that exactly one object holds is a
\* changed pair (its right line is Red), whatever the key's value.
C4_Original ==
    ComparedObjects =>
        \A i \in 1..Len(right_diff_result) :
            KeyAt(i) \in OneSidedKeys => right_diff_result[i].style = "Red"

\* C4 amended: the pair of a key that exactly one object holds is a changed
\* pair exactly when the key's value is not null; a one-sided key holding
\* null gives the unchanged pair "key: null" on both sides.
C4_Amended ==
    ComparedObjects =>
        \A i \in 1..Len(right_diff_result) :
            KeyAt(i) \in OneSidedKeys =>
                IF OneSidedValue(KeyAt(i)) # Null
                THEN right_diff_result[i].style = "Red"
                ELSE /\ right_diff_result[i] =
                            Span(KeyValueLine(KeyAt(i), Null), "Green")
                     /\ left_diff_result[i] = right_diff_result[i]

\* C4 happens: one object alone holds a key with a number and the other
\* alone holds a key with null.
C4_Witness ==
    /\ ComparedObjects
    /\ \E k \in DOMAIN LeftValue.m \ DOMAIN RightValue.m :
           LeftValue.m[k] = Num(1)
    /\ \E k \in DOMAIN RightValue.m \ DOMAIN LeftValue.m :
           RightValue.m[k] = Null

\* The map m with key k set to value v.
WithMember(m, k, v) ==
    [x \in DOMAIN m \cup {k} |-> IF x = k THEN v ELSE m[x]]

\* C5: a key missing on one side is compared and shown as null: for every
\* compared key that one object lacks, adding the key with the value null
\* to that object gives the same result, texts and styles.
C5_MissingKeyEquivalence ==
    ComparedObjects =>
        /\ \A k \in DOMAIN RightValue.m \ DOMAIN LeftValue.m :
               diff_json_values(Obj(WithMember(LeftValue.m, k, Null)), RightValue)
                   = <<left_diff_result, right_diff_result>>
        /\ \A k \in DOMAIN LeftValue.m \ DOMAIN RightValue.m :
               diff_json_values(LeftValue, Obj(WithMember(RightValue.m, k, Null)))
                   = <<left_diff_result, right_diff_result>>

\* C5 happens: the left object holds a key with null that the right object
\* lacks, and the pair shown for it is "key: null" twice.
C5_Witness ==
    /\ ComparedObjects
    /\ \E k \in DOMAIN LeftValue.m \ DOMAIN RightValue.m :
           /\ LeftValue.m[k] = Null
           /\ \E i \in 1..Len(left_diff_result) :
                  /\ left_diff_result[i].content = KeyValueLine(k, Null)
                  /\ right_diff_result[i].content = KeyValueLine(k, Null)

\* C6: comparing in the other order gives as many lines, about the same
\* keys in the same order, with the texts of the two sides exchanged; a
\* pair is changed in one result exactly when it is in the other, and the
\* value shown changed in one is shown unchanged in the other.
C6_SwapMirror ==
    ComparedObjects =>
        LET swapped == diff_json_values(RightValue, LeftValue)
            n == Len(left_diff_result)
        IN /\ Len(swapped[1]) = n /\ Len(swapped[2]) = n
           /\ Len(right_diff_result) = n
           /\ \A i \in 1..n :
                  /\ HasPrefix(swapped[1][i].content, KeyAt(i) \o <<":", " ">>)
                  /\ HasPrefix(swapped[2][i].content, KeyAt(i) \o <<":", " ">>)
                  /\ swapped[1][i].content = right_diff_result[i].content
                  /\ swapped[2][i].content = left_diff_result[i].content
                  /\ (swapped[2][i].style = "Red")
                         <=> (right_diff_result[i].style = "Red")
                  /\ right_diff_result[i].style = "Red"
                         => swapped[1][i].style = "Green"
                  /\ swapped[2][i].style = "Red"
                         => left_diff_result[i].style = "Green"

\* C6 happens: two different objects were compared, with a key whose values
\* differ and a key that only one of them holds.
C6_Witness ==
    /\ ComparedObjects
    /\ OneSidedKeys # {}
    /\ \E k \in DOMAIN LeftValue.m \cap DOMAIN RightValue.m :
           LeftValue.m[k] # RightValue.m[k]
    /\ \E i \in 1..Len(right_diff_result) :
           /\ right_diff_result[i].style = "Red"
           /\ left_diff_result[i].content # right_diff_result[i].content

\* The compact text of the array [1,2,3].
Text123 == <<"[", "1", ",", "2", ",", "3", "]">>

\* C7: when one of the values is not an object the result is one line pair:
\* the compact text of the whole left value, unchanged (Green), and the
\* compact text of the whole right value, changed (Red), equal or not.
C7_FallbackPair ==
    ComparedFallback =>
        /\ left_diff_result = <<Span(Display(LeftValue), "Green")>>
        /\ right_diff_result = <<Span(Display(RightValue), "Red")>>
        /\ LeftValue = Arr123 => left_diff_result[1].content = Text123
        /\ RightValue = Arr123 => right_diff_result[1].content = Text123

\* C7 happens: an array was compared with an equal array.
C7_Witness ==
    /\ ComparedFallback
    /\ LeftValue = Arr123
    /\ RightValue = Arr123
    /\ right_diff_result = <<Span(Text123, "Red")>>

-----------------------------------------------------------------------------
(* Properties of the event loop, under Spec *)

\* A step that handles 'd' with a comparison that fails.
DiffFails == KeyD /\ ~compare_json_files(left_file, right_file).ok

\* A step that handles 'd' with a comparison that succeeds.
DiffSucceeds == KeyD /\ compare_json_files(left_file, right_file).ok

\* C8 as stated: when 'd' is asked for and reading or parsing a file fails,
\* the loop keeps running and the results and display_diff stay as they
\* were.
C8_Original ==
    [][DiffFails =>
          /\ pc' = "running"
          /\ UNCHANGED <<left_diff_result, right_diff_result, display_diff>>]_vars

\* C9 as stated: when an edit ends with the side's file not holding valid
\* JSON, the content loaded for that side stays what it was before the
\* edit.
C9_Original ==
    [][/\ (KeyA /\ pc' = "running" /\ ~read_json(left_file').ok)
              => original_left_content' = original_left_content
       /\ (KeyB /\ pc' = "running" /\ ~read_json(right_file').ok)
              => original_right_content' = original_right_content]_vars

\* C10: display_diff starts false, only a successful 'd' sets it, nothing
\* resets it, and the two results are written only by a successful 'd'; so
\* once a comparison has succeeded each pane shows the result of the latest
\* successful comparison, whatever edits and clears follow.
C10_DisplayMonotone ==
    /\ ~display_diff
    /\ [][/\ display_diff => display_diff'
          /\ display_diff' # display_diff => DiffSucceeds
          /\ <<left_diff_result, right_diff_result>>'
                 # <<left_diff_result, right_diff_result>> => DiffSucceeds
          /\ DiffSucceeds =>
                 /\ display_diff'
                 /\ <<left_diff_result, right_diff_result>>' =
                        compare_json_files(left_file, right_file).value
          /\ (display_diff /\ ~DiffSucceeds) =>
                 (LeftPane' = LeftPane /\ RightPane' = RightPane)
          /\ display_diff' =>
                 (LeftPane' = left_diff_result'
                      /\ RightPane' = right_diff_result')]_vars

\* C10 happens: after a successful comparison the files were cleared, the
\* loaded contents are blank, and the left pane still shows the result.
C10_Witness ==
    /\ display_diff
    /\ key = "c"
    /\ pc = "running"
    /\ original_left_content = TextDefault
    /\ left_file = EmptyFile
    /\ LeftPane # TextDefault
    /\ LeftPane = left_diff_result

====
